---- MODULE Spec2Model ----
(***************************************************************************)
(* Model of kevb10/ai-bridge.                                              *)
(*                                                                         *)
(*   Spec            AiBridge.getChatCompletion / getEmbedding requests    *)
(*                   going through the promise queue to the providers.     *)
(*   SpecCompletion  one call of openai/getChatCompletion.js: the          *)
(*                   non-streaming retry loop and the streaming decoder.   *)
(*   SpecStreams     the streaming decoder on a few long streams whose     *)
(*                   blocks are set apart by runs of newlines.             *)
(*   SpecRemote      MongoDBCache alone: values written and looked up      *)
(*                   under keys differing in kind, options, group, tempKey.*)
(*   SpecCached      AiBridge requests for one key going through the       *)
(*                   layer cache, the queue and the provider.              *)
(*   SpecFair        Spec with the provider calls and the queue going on.  *)
(*   SpecWriters     MongoDBCache with clients that upsert completions     *)
(*                   under the same keys at the same time.                 *)
(*   SpecTempKey     the tempKey that AiBridge.getChatCompletion settles   *)
(*                   from temperature, multiplier and its argument.        *)
(*                                                                         *)
(* A byte stream is a sequence of tokens.  "\n" is one newline; every      *)
(* other token is a run of text without newline or surrounding blanks.     *)
(* A chunk boundary may fall between any two tokens.                       *)
(***************************************************************************)
EXTENDS Integers, Sequences, FiniteSets, TLC

\* ---------------------------------------------------------------- bounds
MaxStreamLen == 6
NumReqs == 3
providerRateLimit == 1
MaxKeys == 3
NumLayers == 2
NumCachedReqs == 2
NumWriters == 2         \* clients writing to the shared database at the same time
MaxTemperature == 20    \* the highest temperature asked for, in tenths: 2.0
MaxKeyMultiplier == 4   \* the highest config.temperatureKeyMultiplier
RandomSteps == 4        \* Math.random() takes the values k / RandomSteps, 0 <= k < RandomSteps

\* ------------------------------------------------------- stream alphabet
NL == "\n"
JsonHi == "data: {Hi}"
JsonBang == "data: {!}"
Sentinel == "data: [DONE]"
ErrorPrefix == "error:"
Text == "oops"

JsonTokens == {JsonHi, JsonBang}
Alphabet == {NL, JsonHi, JsonBang, Sentinel, ErrorPrefix, Text}

\* the token of a parsed JSON block: choices[0].delta.content || choices[0].text || ""
StrToken(tok) ==
    IF tok = JsonHi THEN <<"H", "i">>
    ELSE IF tok = JsonBang THEN <<"!">>
    ELSE <<>>

\* ------------------------------------------------------ string functions
RECURSIVE StripLeadingNL(_)
StripLeadingNL(s) ==
    IF Len(s) > 0 /\ s[1] = NL THEN StripLeadingNL(Tail(s)) ELSE s

RECURSIVE StripTrailingNL(_)
StripTrailingNL(s) ==
    IF Len(s) > 0 /\ s[Len(s)] = NL THEN StripTrailingNL(SubSeq(s, 1, Len(s) - 1)) ELSE s

\* String.prototype.trim over the alphabet, whose only blank is the newline
Trim(s) == StripTrailingNL(StripLeadingNL(s))

\* rawBuffer.indexOf("\n\n"): 0-based position of the first blank line, or -1
IndexOfDoubleNL(s) ==
    LET hits == {i \in 1..(Len(s) - 1) : s[i] = NL /\ s[i + 1] = NL}
    IN IF hits = {} THEN -1 ELSE (CHOOSE i \in hits : \A j \in hits : i <= j) - 1

\* s.slice(0, n) and s.slice(n)
SliceTo(s, n) == SubSeq(s, 1, n)
SliceFrom(s, n) == SubSeq(s, n + 1, Len(s))

StartsWith(s, tok) == Len(s) > 0 /\ s[1] = tok

IsPrefix(a, b) == Len(a) <= Len(b) /\ SubSeq(b, 1, Len(a)) = a

\* dataEvent.startsWith("data: {")
JsonPrefixed(dataEvent) == StartsWith(dataEvent, JsonHi) \/ StartsWith(dataEvent, JsonBang)

\* JSON.parse(dataEvent.slice(6).trim()) succeeds: the block is one JSON object and
\* nothing else ("data: {Hi}oops" and "data: {Hi}\ndata: {!}" do not parse)
JsonParses(dataEvent) == Len(dataEvent) = 1 /\ dataEvent[1] \in JsonTokens

\* ----------------------------------------------------------------- state
VARIABLES
    cpc,            \* position of the call: "init", "attempt", "fetch", "reading", "returned", "threw"
    stream,         \* reqJson.stream == true
    useRawApi,      \* reqJson.rawApi
    tries,          \* loop counter of the non-streaming loop
    respJson,       \* last parsed response body
    respErr,        \* last caught exception
    fetchCount,     \* number of fetch() calls made (provider invocations)
    attempts,       \* history of what each non-streaming attempt received
    bytes,          \* history of every token the byte source has delivered
    rawBuffer,      \* unprocessed tail of the stream
    parsedRes,      \* accumulated text
    eof,            \* the reader has reported done
    listenerCalls,  \* every argument the streamListener was called with, in order
    processed,      \* every dataEvent taken out of rawBuffer, in order
    result,         \* value the call returned
    thrown,         \* value the call threw
    warnLog,        \* console.warn output
    faults          \* what the environment made fail: "transport", "listener"

cvars == <<cpc, stream, useRawApi, tries, respJson, respErr, fetchCount,
           attempts, bytes, rawBuffer, parsedRes, eof, listenerCalls, processed, result,
           thrown, warnLog, faults>>

VARIABLES
    providerLatencyAdd, \* config.providerLatencyAdd
    rpc,             \* position of each request: "idle", "lookup", "waiting", "calling",
                     \* "pacing", "resolved", "rejected", "caching", "returned", "failed"
    rkind,           \* "chat" (getChatCompletion) or "embedding" (getEmbedding)
    queue,           \* _pQueue.queue: the tasks waiting for a slot, oldest first
    pendingPromises, \* _pQueue.pendingPromises: the slots in use
    invoked,         \* number of provider requests each request has sent
    submitNo,        \* rank of each request among the _pQueue.add calls (0: none yet)
    paced            \* the task of the request has slept for providerLatencyAdd

avars == <<providerLatencyAdd, rpc, rkind, queue, pendingPromises, invoked, submitNo, paced>>

VARIABLES
    layers,          \* layerCache: what each backend holds for the key of the requests,
                     \* fastest backend first
    lastGet,         \* the last layerCache lookup, while no other cache operation followed it
    got,             \* what the cache lookup of each request returned
    res,             \* what the provider call of each request returned
    heard,           \* every argument AiBridge itself gave the streamListener of each request
    ret,             \* what each request returned
    added,           \* what each request handed to the cache to be written
    seen,            \* the requests that had returned when each request was made
    fault,           \* the cache operations of each request in which a backend raised
    docs,            \* MongoDBCache: the documents of the cache database
    written,         \* the cache keys written to, each with the last value written under it
    upserts,         \* MongoDB: the updateOne calls that matched no record and have yet to insert
    keyed            \* AiBridge.getChatCompletion: the call whose tempKey is being settled

kvars == <<layers, lastGet, got, res, heard, ret, added, seen, fault, docs, written, upserts,
          keyed>>

vars == <<cvars, avars, kvars>>

\* ---------------------------------------------------------------- values
Texts == {<<"H", "i">>, <<"!">>}

NullJson == [shape |-> "null", content |-> <<>>]
Bodies == [shape : {"chat", "text"}, content : Texts]
              \cup {[shape |-> "error", content |-> <<>>], [shape |-> "empty", content |-> <<>>]}

NoResult == [kind |-> "none", content |-> <<>>]
NullResult == [kind |-> "null", content |-> <<>>]
TextResult(t) == [kind |-> "text", content |-> t]
RawResult(b) == [kind |-> "raw", content |-> b.content]

NoError == [msg |-> "none", detail |-> <<>>]
Err(m) == [msg |-> m, detail |-> <<>>]
MissingValidResponse == Err("Missing valid openai response, please check warn logs for more details")
EventProcessingError == Err("Unexpected event processing error, see warning logs for more details")

\* the streamListener is the caller's: failAt = n > 0 makes its n-th call of the current
\* step raise, failAt = 0 lets every call of the step return
ListenerThrows(failAt, n) == failAt # 0 /\ failAt = n

\* ------------------------------------------------- non-streaming request
\* the loop without its second pass
MaxTries_once == 2 - 1

\* the loop with one pass more
MaxTries_thrice == 2 + 1

\* line 114: tries < 2
MaxTries == 2

\* lines 284-299: what is written to the warn log once the loop has ended
UnableToHandle(err, json) ==
    IF err # "none"
    THEN [msg |-> "Unable to handle prompt", error |-> err, response |-> NullJson]
    ELSE [msg |-> "Unable to handle prompt", error |-> "none", response |-> json]

\* lines 60-103: checks made before any request is sent
Prepare(contentNull, maxTokens) ==
    /\ UNCHANGED <<avars, kvars>>
    /\ cpc = "init"
    /\ IF contentNull
       THEN /\ cpc' = "threw"
            /\ thrown' = Err("Message content is null")
       ELSE IF maxTokens <= 50
       THEN /\ cpc' = "threw"
            /\ thrown' = Err("Prompt is larger or nearly equal to total token count")
       ELSE /\ cpc' = IF stream THEN "fetch" ELSE "attempt"
            /\ thrown' = thrown
    /\ UNCHANGED <<stream, useRawApi, tries, respJson, respErr, fetchCount,
                   attempts, bytes, rawBuffer, parsedRes, eof, listenerCalls, processed,
                   result, warnLog, faults>>

\* lines 114-167 and 284-300: one pass of the loop body; outcome is "fetch_throws",
\* "json_throws" (resp.json() rejects) or "body" (the body b was parsed)
Attempt(outcome, b, failAt) ==
    /\ UNCHANGED <<avars, kvars>>
    /\ cpc = "attempt"
    /\ tries < MaxTries
    /\ fetchCount' = fetchCount + 1
    /\ attempts' = Append(attempts, [outcome |-> outcome,
                                     body |-> IF outcome = "body" THEN b ELSE NullJson,
                                     listener |-> IF outcome = "body" /\ b.shape \in {"chat", "text"}
                                                     /\ ~useRawApi /\ ListenerThrows(failAt, 1)
                                                  THEN "raised" ELSE "ok"])
    /\ LET json == IF outcome = "body" THEN b ELSE respJson
           wellFormed == outcome = "body" /\ b.shape \in {"chat", "text"}
           callsListener == wellFormed /\ ~useRawApi
           calls == IF callsListener THEN Append(listenerCalls, b.content) ELSE listenerCalls
           caught == IF outcome # "body" THEN outcome
                     ELSE IF b.shape = "error" THEN "api_error"
                     ELSE IF callsListener /\ ListenerThrows(failAt, 1) THEN "listener"
                     ELSE "none"
           apiWarn == IF caught = "api_error"
                      THEN Append(warnLog, [msg |-> "getChatCompletion API error"])
                      ELSE warnLog
       IN /\ respJson' = json
          /\ listenerCalls' = calls
          /\ faults' = faults \cup (IF caught = "listener" THEN {"listener"}
                                    ELSE IF caught \in {"fetch_throws", "json_throws"}
                                    THEN {"transport"} ELSE {})
          /\ IF caught # "none"
             THEN /\ respErr' = caught
                  /\ tries' = tries + 1
                  /\ result' = result
                  /\ IF tries + 1 < MaxTries
                     THEN /\ cpc' = "attempt"
                          /\ thrown' = thrown
                          /\ warnLog' = apiWarn
                     ELSE /\ cpc' = "threw"
                          /\ thrown' = MissingValidResponse
                          /\ warnLog' = Append(apiWarn, UnableToHandle(caught, json))
             ELSE /\ cpc' = "returned"
                  /\ result' = IF b.shape = "empty" THEN NullResult
                               ELSE IF useRawApi THEN RawResult(b)
                               ELSE TextResult(b.content)
                  /\ UNCHANGED <<respErr, tries, thrown, warnLog>>
    /\ UNCHANGED <<stream, useRawApi, bytes, rawBuffer, parsedRes, eof,
                   processed>>

\* ----------------------------------------------------- streaming request
\* the decoder's local state while one reader.read() result is handled
Decoder == [rawBuffer |-> rawBuffer, parsedRes |-> parsedRes, listenerCalls |-> listenerCalls,
            processed |-> processed, warn |-> <<>>, err |-> NoError, calls |-> 0]

\* an error block that is skipped like any other line
ErrorEvent_ignored(d, dataEvent) == d

\* lines 226-229: an error block
ErrorEvent(d, dataEvent) ==
    [d EXCEPT !.err = [msg |-> "Unexpected stream request error",
                       detail |-> SliceFrom(dataEvent, 1)]]

\* a "[DONE]" block taken as the end of the stream: what follows it is dropped
SentinelEvent_stop(d) == [d EXCEPT !.rawBuffer = <<>>]

\* lines 231-234: a "[DONE]" block
SentinelEvent(d) == d

\* the token put in front of the result instead of behind it
Emit_prepend(d, strToken) ==
    [d EXCEPT !.parsedRes = strToken \o @,
              !.listenerCalls = Append(@, strToken),
              !.calls = @ + 1]

\* lines 248-252: the token is added to the result and handed to the listener
Emit(d, strToken) ==
    [d EXCEPT !.parsedRes = @ \o strToken,
              !.listenerCalls = Append(@, strToken),
              !.calls = @ + 1]

\* lines 236-254: a JSON block
JsonEvent(d, dataEvent, failAt) ==
    IF ~JsonParses(dataEvent)
    THEN [d EXCEPT !.err = Err("JSON.parse SyntaxError")]
    ELSE LET e == Emit(d, StrToken(dataEvent[1]))
         IN IF ListenerThrows(failAt, e.calls)
            THEN [e EXCEPT !.err = Err("streamListener raised")]
            ELSE e

\* a block of unknown shape that is dropped without a word
FormatError_skipped(d, dataEvent) == d

\* lines 256-258: any other block
FormatError(d, dataEvent) ==
    [d EXCEPT !.warn = Append(@, [msg |-> "Unexpected data event format", detail |-> dataEvent]),
              !.err = Err("Unexpected data event format, see warning logs")]

\* lines 226-258: the body of the inner loop for one dataEvent
HandleEvent(d, dataEvent, failAt) ==
    IF StartsWith(dataEvent, ErrorPrefix) THEN ErrorEvent(d, dataEvent)
    ELSE IF StartsWith(dataEvent, Sentinel) THEN SentinelEvent(d)
    ELSE IF JsonPrefixed(dataEvent) THEN JsonEvent(d, dataEvent, failAt)
    ELSE FormatError(d, dataEvent)

\* lines 219-259: take the terminated dataEvents out of the buffer, until one raises
RECURSIVE DrainEvents(_, _)
DrainEvents(d, failAt) ==
    LET doubleNL_pos == IndexOfDoubleNL(d.rawBuffer)
    IN IF d.err # NoError \/ ~(doubleNL_pos > 0) THEN d
       ELSE LET dataEvent == Trim(SliceTo(d.rawBuffer, doubleNL_pos))
                taken == [d EXCEPT !.rawBuffer = SliceFrom(d.rawBuffer, doubleNL_pos + 2),
                                   !.processed = Append(@, dataEvent)]
            IN DrainEvents(HandleEvent(taken, dataEvent, failAt), failAt)

\* lines 203-259: one pass of the read loop, up to the completion test
ReadPass(d, hasValue, value, failAt) ==
    LET pushed == IF hasValue THEN [d EXCEPT !.rawBuffer = @ \o value] ELSE d
        stripped == [pushed EXCEPT !.rawBuffer = StripLeadingNL(@)]
    IN DrainEvents(stripped, failAt)

EndOfStreamError == Err("Unexpected end of stream, with unprocessed data")

\* lines 267-275: the test made once the loop has ended
EndOfStream(d) ==
    LET trimRawBuffer == Trim(d.rawBuffer)
    IN IF Len(trimRawBuffer) > 0
       THEN [d EXCEPT !.warn = Append(@, [msg |-> "Unexpected end of stream, with unprocessed data",
                                          detail |-> trimRawBuffer]),
                      !.err = EndOfStreamError]
       ELSE d

\* the decoder before the first read
FreshDecoder == [rawBuffer |-> <<>>, parsedRes |-> <<>>, listenerCalls |-> <<>>,
                 processed |-> <<>>, warn |-> <<>>, err |-> NoError, calls |-> 0]

\* lines 200-265: the read loop over a list of chunks, with a listener that returns
RECURSIVE DecodeChunks(_, _)
DecodeChunks(d, chunks) ==
    IF chunks = <<>> \/ d.err # NoError THEN d
    ELSE DecodeChunks(ReadPass(d, TRUE, Head(chunks), 0), Tail(chunks))

\* lines 200-275: the decode of a whole stream that arrives as the given chunks and ends
DecodeStream(chunks) ==
    LET d == DecodeChunks(FreshDecoder, chunks)
        last == IF d.err # NoError THEN d ELSE ReadPass(d, FALSE, <<>>, 0)
    IN IF last.err # NoError THEN last ELSE EndOfStream(last)

\* an exception of the streaming block answered by a new request
Catch_retry(d) ==
    /\ cpc' = "fetch"
    /\ warnLog' = (warnLog \o d.warn) \o <<[msg |-> "Unexpected event processing error",
                                            error |-> d.err]>>
    /\ UNCHANGED <<thrown, result, fetchCount>>

\* lines 276-278: every exception of the streaming block is logged and replaced
Catch(d) ==
    /\ cpc' = "threw"
    /\ thrown' = EventProcessingError
    /\ warnLog' = (warnLog \o d.warn) \o <<[msg |-> "Unexpected event processing error",
                                            error |-> d.err]>>
    /\ result' = result
    /\ UNCHANGED fetchCount

Store(d) ==
    /\ rawBuffer' = d.rawBuffer
    /\ parsedRes' = d.parsedRes
    /\ listenerCalls' = d.listenerCalls
    /\ processed' = d.processed

\* lines 173-181: the single request of a streaming call; a rejected fetch is outside
\* the try block and reaches the caller as it is
StreamFetch(ok) ==
    /\ UNCHANGED <<avars, kvars>>
    /\ cpc = "fetch"
    /\ fetchCount' = fetchCount + 1
    /\ IF ok
       THEN /\ cpc' = "reading"
            /\ UNCHANGED <<thrown, faults>>
       ELSE /\ cpc' = "threw"
            /\ thrown' = Err("fetch failed")
            /\ faults' = faults \cup {"transport"}
    /\ UNCHANGED <<stream, useRawApi, tries, respJson, respErr, attempts,
                   bytes, rawBuffer, parsedRes, eof, listenerCalls, processed, result,
                   warnLog>>

\* lines 200-265 with { value: chunk, done: false }
ReadChunk(value) ==
    /\ UNCHANGED <<avars, kvars>>
    /\ cpc = "reading"
    /\ bytes' = bytes \o value
    /\ \E failAt \in 0..ReadPass(Decoder, TRUE, value, 0).calls :
       LET d == ReadPass(Decoder, TRUE, value, failAt)
       IN /\ Store(d)
          /\ faults' = faults \cup (IF failAt > 0 THEN {"listener"} ELSE {})
          /\ IF d.err # NoError
             THEN Catch(d)
             ELSE /\ warnLog' = warnLog \o d.warn
                  /\ UNCHANGED <<cpc, thrown, result, fetchCount>>
    /\ UNCHANGED <<stream, useRawApi, tries, respJson, respErr, attempts, eof>>

\* lines 200-282 with { value: undefined, done: true }
ReadEnd ==
    /\ UNCHANGED <<avars, kvars>>
    /\ cpc = "reading"
    /\ eof' = TRUE
    /\ \E failAt \in 0..ReadPass(Decoder, FALSE, <<>>, 0).calls :
       LET d == ReadPass(Decoder, FALSE, <<>>, failAt)
           e == IF d.err # NoError THEN d ELSE EndOfStream(d)
       IN /\ Store(e)
          /\ faults' = faults \cup (IF failAt > 0 THEN {"listener"} ELSE {})
          /\ IF e.err # NoError
             THEN Catch(e)
             ELSE /\ cpc' = "returned"
                  /\ result' = TextResult(e.parsedRes)
                  /\ warnLog' = warnLog \o e.warn
                  /\ UNCHANGED <<thrown, fetchCount>>
    /\ UNCHANGED <<stream, useRawApi, tries, respJson, respErr, attempts, bytes>>

\* lines 190 and 203: resp.body.getReader() or reader.read() rejects
ReadFail ==
    /\ UNCHANGED <<avars, kvars>>
    /\ cpc = "reading"
    /\ Catch([Decoder EXCEPT !.err = Err("read failed")])
    /\ faults' = faults \cup {"transport"}
    /\ UNCHANGED <<stream, useRawApi, tries, respJson, respErr,
                   attempts, bytes, rawBuffer, parsedRes, eof, listenerCalls, processed>>

\* ------------------------------------------------------------- AiBridge
Reqs == 1..NumReqs

Max(S) == CHOOSE x \in S : \A y \in S : y <= x

\* a queue built without its limit
maxPendingPromises_unbounded == providerRateLimit + NumReqs

\* AiBridge.js line 80: new PromiseQueue(this.config.providerRateLimit)
maxPendingPromises == providerRateLimit

\* PromiseQueue._dequeue: the oldest waiting task takes a slot if one is free, and its
\* function is called at once, which sends the provider request
Dequeue(q, pending, pc, inv) ==
    IF pending >= maxPendingPromises \/ q = <<>>
    THEN [queue |-> q, pendingPromises |-> pending, rpc |-> pc, invoked |-> inv]
    ELSE LET item == Head(q)
         IN [queue |-> Tail(q), pendingPromises |-> pending + 1,
             rpc |-> [pc EXCEPT ![item] = "calling"],
             invoked |-> [inv EXCEPT ![item] = @ + 1]]

SetQueue(st) ==
    /\ queue' = st.queue
    /\ pendingPromises' = st.pendingPromises
    /\ rpc' = st.rpc
    /\ invoked' = st.invoked

\* lines 127-175 and 226-236: the request is made and the cache is asked
Call(r, kind) ==
    /\ UNCHANGED <<cvars, kvars>>
    /\ rpc[r] = "idle"
    /\ \A x \in Reqs : x < r => rpc[x] # "idle"    \* requests are numbered as they are made
    /\ rpc' = [rpc EXCEPT ![r] = "lookup"]
    /\ rkind' = [rkind EXCEPT ![r] = kind]
    /\ UNCHANGED <<providerLatencyAdd, paced, queue, pendingPromises, invoked, submitNo>>

\* lines 176-187 and 237-246: the cache has the value
CacheHit(r) ==
    /\ UNCHANGED <<cvars, kvars>>
    /\ rpc[r] = "lookup"
    /\ rpc' = [rpc EXCEPT ![r] = "returned"]
    /\ UNCHANGED <<providerLatencyAdd, paced, rkind, queue, pendingPromises, invoked, submitNo>>

\* lines 190 and 250: on a miss the task is handed to _pQueue.add, which appends it to
\* the queue and calls _dequeue
CacheMiss(r) ==
    /\ UNCHANGED <<cvars, kvars>>
    /\ rpc[r] = "lookup"
    /\ submitNo' = [submitNo EXCEPT ![r] = Max({submitNo[x] : x \in Reqs}) + 1]
    /\ SetQueue(Dequeue(Append(queue, r), pendingPromises, [rpc EXCEPT ![r] = "waiting"],
                        invoked))
    /\ UNCHANGED <<providerLatencyAdd, paced, rkind>>

\* getChatCompletion.js lines 114-167: the first attempt of a chat task failed and the
\* second request is sent
ProviderRetry(r) ==
    /\ UNCHANGED <<cvars, kvars>>
    /\ rpc[r] = "calling"
    /\ rkind[r] = "chat"
    /\ invoked[r] < MaxTries
    /\ invoked' = [invoked EXCEPT ![r] = @ + 1]
    /\ UNCHANGED <<providerLatencyAdd, paced, rpc, rkind, queue, pendingPromises, submitNo>>

\* a task that returns without the sleep
ProviderReturn_unpaced(r) ==
    /\ UNCHANGED <<cvars, kvars>>
    /\ rpc[r] = "calling"
    /\ rpc' = [rpc EXCEPT ![r] = "resolved"]
    /\ UNCHANGED <<providerLatencyAdd, paced, rkind, queue, pendingPromises, invoked, submitNo>>

\* lines 192-203 and 251-258: the provider call has returned; the task sleeps for
\* providerLatencyAdd if it is set, else it returns
ProviderReturn(r) ==
    /\ UNCHANGED <<cvars, kvars>>
    /\ rpc[r] = "calling"
    /\ rpc' = [rpc EXCEPT ![r] = IF providerLatencyAdd > 0 THEN "pacing" ELSE "resolved"]
    /\ UNCHANGED <<providerLatencyAdd, paced, rkind, queue, pendingPromises, invoked, submitNo>>

\* a task that swallows the exception of its provider call and returns
ProviderFail_swallowed(r) ==
    /\ UNCHANGED <<cvars, kvars>>
    /\ rpc[r] = "calling"
    /\ rpc' = [rpc EXCEPT ![r] = "resolved"]
    /\ UNCHANGED <<providerLatencyAdd, paced, rkind, queue, pendingPromises, invoked, submitNo>>

\* lines 193-195 and 251: the provider call has thrown, and so does the task
ProviderFail(r) ==
    /\ UNCHANGED <<cvars, kvars>>
    /\ rpc[r] = "calling"
    /\ rpc' = [rpc EXCEPT ![r] = "rejected"]
    /\ UNCHANGED <<providerLatencyAdd, paced, rkind, queue, pendingPromises, invoked, submitNo>>

\* lines 199-202 and 254-257: the sleep is over and the task returns
PacingDone(r) ==
    /\ UNCHANGED <<cvars, kvars>>
    /\ rpc[r] = "pacing"
    /\ rpc' = [rpc EXCEPT ![r] = "resolved"]
    /\ paced' = [paced EXCEPT ![r] = TRUE]
    /\ UNCHANGED <<providerLatencyAdd, rkind, queue, pendingPromises, invoked, submitNo>>

\* handlers that give the slot back only when the task has succeeded
Release_leak(r) ==
    /\ UNCHANGED <<cvars, kvars>>
    /\ rpc[r] \in {"resolved", "rejected"}
    /\ IF rpc[r] = "resolved"
       THEN SetQueue(Dequeue(queue, pendingPromises - 1, [rpc EXCEPT ![r] = "caching"], invoked))
       ELSE /\ rpc' = [rpc EXCEPT ![r] = "failed"]
            /\ UNCHANGED <<queue, pendingPromises, invoked>>
    /\ UNCHANGED <<providerLatencyAdd, paced, rkind, submitNo>>

\* PromiseQueue's handlers of the task's promise: the slot is given back, the caller's
\* promise is settled and _dequeue is called
Release(r) ==
    /\ UNCHANGED <<cvars, kvars>>
    /\ rpc[r] \in {"resolved", "rejected"}
    /\ SetQueue(Dequeue(queue, pendingPromises - 1,
                        [rpc EXCEPT ![r] = IF rpc[r] = "resolved" THEN "caching" ELSE "failed"],
                        invoked))
    /\ UNCHANGED <<providerLatencyAdd, paced, rkind, submitNo>>

\* lines 205-217 and 260-271: the result is written to the cache and returned
CacheAdd(r) ==
    /\ UNCHANGED <<cvars, kvars>>
    /\ rpc[r] = "caching"
    /\ rpc' = [rpc EXCEPT ![r] = "returned"]
    /\ UNCHANGED <<providerLatencyAdd, paced, rkind, queue, pendingPromises, invoked, submitNo>>

BridgeStart ==
    /\ rpc = [r \in Reqs |-> "idle"]
    /\ rkind = [r \in Reqs |-> "none"]
    /\ queue = <<>>
    /\ pendingPromises = 0
    /\ invoked = [r \in Reqs |-> 0]
    /\ submitNo = [r \in Reqs |-> 0]
    /\ paced = [r \in Reqs |-> FALSE]

InitBridge == providerLatencyAdd \in {0, 1} /\ BridgeStart

\* the bridge while a single provider call is looked into
IdleBridge == providerLatencyAdd = 0 /\ BridgeStart

\* ---------------------------------------------------------- cache keys
Kinds == {"completion", "embedding"}
Models == {"m"}
Prompts == {"p"}
Opts == {"o1", "o2"}
Groups == {"g1", "g2"}
TempKeys == {0, 1}
Values == {"x", "y"}

Null == "null"          \* null: no usable value
Nothing == "nothing"    \* not yet

\* the digest of the serialized prompt
Hash(prompt) == <<"digest", prompt>>

\* what a request asks the cache for; an embedding carries no tempKey
CacheRequests ==
    {q \in [kind : Kinds, model : Models, prompt : Prompts, opt : Opts, cacheGrp : Groups,
            tempKey : TempKeys] : q.kind = "embedding" => q.tempKey = 0}

\* the cacheObj that LayerCache hands to its backends
CacheObj(q) ==
    [hash |-> Hash(q.prompt), tempKey |-> q.tempKey, prompt |-> q.prompt, cleanOpt |-> q.opt,
     promptOpt |-> [model |-> q.model], cacheGrp |-> q.cacheGrp]

\* ----------------------------------------------------------- MongoDBCache
getCacheCollectionName(type, cacheObj) == <<type, "_", cacheObj.promptOpt.model>>

\* a lookup of completions that leaves tempKey out of its filter
CompletionFilter_anyTempKey(cacheObj, d) ==
    /\ d.hash = cacheObj.hash
    /\ d.prompt = cacheObj.prompt
    /\ d.opt = cacheObj.cleanOpt

\* the filter of findOne and updateOne for completions
CompletionFilter(cacheObj, d) ==
    /\ d.hash = cacheObj.hash
    /\ d.tempKey = cacheObj.tempKey
    /\ d.prompt = cacheObj.prompt
    /\ d.opt = cacheObj.cleanOpt

\* the filter of findOne for embeddings
EmbeddingFindFilter(cacheObj, d) == d.prompt = cacheObj.prompt

\* the filter of updateOne for embeddings
EmbeddingUpdateFilter(cacheObj, d) ==
    /\ d.prompt = cacheObj.prompt
    /\ d.opt = cacheObj.cleanOpt

\* getCacheCompletion: every value findOne may hand back; the order of a collection
\* is the database's
getCacheCompletion(db, cacheObj) ==
    LET collectionName == getCacheCollectionName("completion", cacheObj)
        records == {d \in db : d.coll = collectionName /\ CompletionFilter(cacheObj, d)}
    IN IF records # {} THEN {d.completion : d \in records} ELSE {Null}

\* addCacheCompletion: updateOne with upsert
addCacheCompletion(db, cacheObj, completion) ==
    LET collectionName == getCacheCollectionName("completion", cacheObj)
        records == {d \in db : d.coll = collectionName /\ CompletionFilter(cacheObj, d)}
    IN IF records # {}
       THEN LET d == CHOOSE d \in records : TRUE
            IN (db \ {d}) \cup {[d EXCEPT !.completion = completion]}
       ELSE db \cup {[coll |-> collectionName, hash |-> cacheObj.hash,
                      tempKey |-> cacheObj.tempKey, prompt |-> cacheObj.prompt,
                      opt |-> cacheObj.cleanOpt, completion |-> completion]}

\* getCacheEmbedding
getCacheEmbedding(db, cacheObj) ==
    LET collectionName == getCacheCollectionName("embedding", cacheObj)
        records == {d \in db : d.coll = collectionName /\ EmbeddingFindFilter(cacheObj, d)}
    IN IF records # {} THEN {d.embedding : d \in records} ELSE {Null}

\* addCacheEmbedding
addCacheEmbedding(db, cacheObj, embedding) ==
    LET collectionName == getCacheCollectionName("embedding", cacheObj)
        records == {d \in db : d.coll = collectionName /\ EmbeddingUpdateFilter(cacheObj, d)}
    IN IF records # {}
       THEN LET d == CHOOSE d \in records : TRUE
            IN (db \ {d}) \cup {[d EXCEPT !.embedding = embedding]}
       ELSE db \cup {[coll |-> collectionName, prompt |-> cacheObj.prompt,
                      opt |-> cacheObj.cleanOpt, embedding |-> embedding]}

NoRead == [request |-> Nothing, value |-> Nothing]

\* the last value written under key k
Written(k) ==
    IF \E w \in written : w[1] = k THEN (CHOOSE w \in written : w[1] = k)[2] ELSE Nothing

\* a value is written under the key of request q
RemoteAdd(q, value) ==
    /\ Written(q) # Nothing \/ Cardinality({k \in CacheRequests : Written(k) # Nothing}) < MaxKeys
    /\ docs' = IF q.kind = "completion"
               THEN addCacheCompletion(docs, CacheObj(q), value)
               ELSE addCacheEmbedding(docs, CacheObj(q), value)
    /\ written' = {w \in written : w[1] # q} \cup {<<q, value>>}
    /\ lastGet' = NoRead
    /\ UNCHANGED <<cvars, avars, layers, got, res, heard, ret, added, seen, fault, upserts, keyed>>

\* the key of request q is looked up
RemoteGet(q, value) ==
    /\ value \in (IF q.kind = "completion"
                  THEN getCacheCompletion(docs, CacheObj(q))
                  ELSE getCacheEmbedding(docs, CacheObj(q)))
    /\ lastGet' = [request |-> q, value |-> value]
    /\ UNCHANGED <<cvars, avars, layers, got, res, heard, ret, added, seen, fault, docs, written, upserts, keyed>>

\* ------------------------------------- MongoDBCache under concurrent writers
\* addCacheCompletion awaits one updateOne({hash, tempKey, prompt, opt}, {$set}, {upsert: true}).
\* The database runs it in two steps: it matches the filter, and when no record matched
\* it inserts one. The collection has no unique index (setup only connects), so the
\* insert of one client is not held back by the record another client inserted since.
Writers == 1..NumWriters

NoUpsert == [request |-> Nothing, value |-> Nothing]

\* the completion keys the writers share: they differ in tempKey only
WriterKeys ==
    {q \in CacheRequests : q.kind = "completion" /\ q.opt = "o1" /\ q.cacheGrp = "g1"}

\* the records of its collection that the filter of cacheObj matches
Records(db, cacheObj) ==
    {d \in db : d.coll = getCacheCollectionName("completion", cacheObj)
                /\ CompletionFilter(cacheObj, d)}

\* updateOne whose filter matches: $set on one matching record, in one step
UpsertFound(w, q, value) ==
    /\ upserts[w] = NoUpsert
    /\ \E d \in Records(docs, CacheObj(q)) :
          docs' = (docs \ {d}) \cup {[d EXCEPT !.completion = value]}
    /\ written' = {k \in written : k[1] # q} \cup {<<q, value>>}
    /\ lastGet' = NoRead
    /\ UNCHANGED <<cvars, avars, layers, got, res, heard, ret, added, seen, fault, upserts, keyed>>

\* updateOne whose filter matches nothing: the upsert turns into an insert
UpsertMissed(w, q, value) ==
    /\ upserts[w] = NoUpsert
    /\ Records(docs, CacheObj(q)) = {}
    /\ upserts' = [upserts EXCEPT ![w] = [request |-> q, value |-> value]]
    /\ UNCHANGED <<cvars, avars, layers, lastGet, got, res, heard, ret, added, seen, fault,
                   docs, written, keyed>>

\* the insert of an upsert that matched nothing: a new record under a new _id
UpsertInsert(w) ==
    LET q == upserts[w].request
        cacheObj == CacheObj(q)
    IN /\ upserts[w] # NoUpsert
       /\ docs' = docs \cup {[_id |-> Cardinality(docs) + 1,
                              coll |-> getCacheCollectionName("completion", cacheObj),
                              hash |-> cacheObj.hash, tempKey |-> cacheObj.tempKey,
                              prompt |-> cacheObj.prompt, opt |-> cacheObj.cleanOpt,
                              completion |-> upserts[w].value]}
       /\ written' = {k \in written : k[1] # q} \cup {<<q, upserts[w].value>>}
       /\ upserts' = [upserts EXCEPT ![w] = NoUpsert]
       /\ lastGet' = NoRead
       /\ UNCHANGED <<cvars, avars, layers, got, res, heard, ret, added, seen, fault, keyed>>

\* getCacheCompletion by any client
WriterGet(q, value) ==
    /\ value \in getCacheCompletion(docs, CacheObj(q))
    /\ lastGet' = [request |-> q, value |-> value]
    /\ UNCHANGED <<cvars, avars, layers, got, res, heard, ret, added, seen, fault, docs,
                   written, upserts, keyed>>


\* ------------------------------------------- AiBridge: the partition key
\* Temperatures are counted in tenths, so that every product and quotient is exact.
TemperatureScale == 10

Temperatures == (0 - TemperatureScale)..MaxTemperature
KeyMultipliers == 0..MaxKeyMultiplier
GivenKeys == {-2, -1, 0, 1, 7}      \* -1 is the default of the parameter
RandomDraws == 0..(RandomSteps - 1)

\* Math.floor(num / den), den > 0
Floor(num, den) == num \div den

NoKeyedCall ==
    [temperature |-> 0, temperatureKeyMultiplier |-> 0, given |-> 0, random |-> 0,
     tempKey |-> 0, step |-> "none"]

\* a key that is the rounded product instead of its floor
deriveTempKey_rounded(tempKey, temperature, temperatureKeyMultiplier, random) ==
    IF tempKey < 0
    THEN LET tempRange == temperature * temperatureKeyMultiplier
         IN IF Floor(tempRange, TemperatureScale) <= 0
            THEN 0
            ELSE Floor(2 * random * tempRange + RandomSteps * TemperatureScale,
                       2 * RandomSteps * TemperatureScale)
    ELSE tempKey

\* the tempKey that getChatCompletion goes on with: tempKey as passed, temperature in
\* tenths, Math.random() = random / RandomSteps. The assignment under
\* opt.temperature == 0 is overwritten by the if/else below it, which gives 0 as well.
deriveTempKey(tempKey, temperature, temperatureKeyMultiplier, random) ==
    IF tempKey < 0
    THEN LET tempRange == temperature * temperatureKeyMultiplier     \* in tenths
         IN IF Floor(tempRange, TemperatureScale) <= 0
            THEN 0
            ELSE Floor(random * tempRange, RandomSteps * TemperatureScale)
    ELSE tempKey

\* getChatCompletion settles the key of the call
DeriveTempKey(random) ==
    /\ keyed.step = "called"
    /\ keyed' = [keyed EXCEPT
                    !.random = random,
                    !.tempKey = deriveTempKey(keyed.given, keyed.temperature,
                                              keyed.temperatureKeyMultiplier, random),
                    !.step = "keyed"]
    /\ UNCHANGED <<cvars, avars, layers, lastGet, got, res, heard, ret, added, seen, fault,
                   docs, written, upserts>>

\* ------------------------------------------------------------- LayerCache
Layers == 1..NumLayers

Min(S) == CHOOSE x \in S : \A y \in S : x <= y

\* a lookup that promotes nothing
LayerGet_unpromoted(ls, down) ==
    LET hits == {i \in DOMAIN ls : i \notin down /\ ls[i] # Null}
        layer == IF hits = {} THEN 0 ELSE Min(hits)
    IN [value |-> IF layer = 0 THEN Null ELSE ls[layer], layer |-> layer, layers |-> ls,
        failed |-> {},
        raised |-> (IF layer = 0 THEN DOMAIN ls ELSE 1..layer) \cap down # {}]

\* a lookup: the backends are asked in order, a backend that raises counts as a miss,
\* the first hit is written into every backend asked before it, and a backend that
\* raises is passed over.  down holds the backends that raise during the operation.
LayerGet(ls, down) ==
    LET hits == {i \in DOMAIN ls : i \notin down /\ ls[i] # Null}
        layer == IF hits = {} THEN 0 ELSE Min(hits)
        probed == IF layer = 0 THEN DOMAIN ls ELSE 1..layer
        promoted == IF layer = 0 THEN {} ELSE 1..(layer - 1)
    IN [value |-> IF layer = 0 THEN Null ELSE ls[layer],
        layer |-> layer,
        layers |-> [j \in DOMAIN ls |->
                       IF j \in promoted /\ j \notin down THEN ls[layer] ELSE ls[j]],
        failed |-> promoted \cap down,
        raised |-> probed \cap down # {}]

\* a write whose first failing backend fails the whole write
LayerAdd_abort(ls, value, down) ==
    [ok |-> down = {},
     layers |-> [j \in DOMAIN ls |->
                    IF \A i \in 1..j : i \notin down THEN value ELSE ls[j]]]

\* a write goes to every backend; a backend that raises is passed over
LayerAdd(ls, value, down) ==
    [ok |-> TRUE,
     layers |-> [j \in DOMAIN ls |-> IF j \in down THEN ls[j] ELSE value]]

NoReturn == [value |-> Nothing, cache |-> FALSE]

\* ------------------------------------------- AiBridge requests and the cache
\* lines 127-175 and 226-236: one more request for the same key is made
CachedCall(r, kind) ==
    /\ rpc[r] = "idle"
    /\ \A x \in Reqs : x < r => rpc[x] # "idle" /\ rkind[x] = kind
    /\ rpc' = [rpc EXCEPT ![r] = "lookup"]
    /\ rkind' = [rkind EXCEPT ![r] = kind]
    /\ seen' = [seen EXCEPT ![r] = {x \in Reqs : rpc[x] = "returned"}]
    /\ UNCHANGED <<providerLatencyAdd, paced, queue, pendingPromises, invoked, submitNo>>
    /\ UNCHANGED <<cvars, layers, lastGet, got, res, heard, ret, added, fault, docs, written, upserts, keyed>>

\* lines 174-187 and 237-246: the cache has a value; a chat request hands it to its
\* streamListener, which may raise, and returns it
CachedHit(r, down, listenerOk) ==
    LET g == LayerGet(layers, down)
    IN /\ rpc[r] = "lookup"
       /\ g.value # Null
       /\ listenerOk \/ rkind[r] = "chat"
       /\ layers' = g.layers
       /\ lastGet' = [value |-> g.value, layer |-> g.layer, failed |-> g.failed]
       /\ got' = [got EXCEPT ![r] = g.value]
       /\ fault' = [fault EXCEPT ![r] = IF g.raised THEN @ \cup {"get"} ELSE @]
       /\ heard' = [heard EXCEPT ![r] = IF rkind[r] = "chat" THEN <<g.value>> ELSE <<>>]
       /\ rpc' = [rpc EXCEPT ![r] = IF listenerOk THEN "returned" ELSE "failed"]
       /\ ret' = [ret EXCEPT ![r] = IF listenerOk THEN [value |-> g.value, cache |-> TRUE]
                                    ELSE NoReturn]
       /\ UNCHANGED <<providerLatencyAdd, paced, rkind, queue, pendingPromises, invoked, submitNo>>
       /\ UNCHANGED <<cvars, res, added, seen, docs, written, upserts, keyed>>

\* lines 174-190 and 237-250: the cache has no value and the task is handed to
\* _pQueue.add
CachedMiss(r, down) ==
    LET g == LayerGet(layers, down)
    IN /\ rpc[r] = "lookup"
       /\ g.value = Null
       /\ lastGet' = [value |-> Null, layer |-> 0, failed |-> {}]
       /\ got' = [got EXCEPT ![r] = Null]
       /\ fault' = [fault EXCEPT ![r] = IF g.raised THEN @ \cup {"get"} ELSE @]
       /\ submitNo' = [submitNo EXCEPT ![r] = Max({submitNo[x] : x \in Reqs}) + 1]
       /\ SetQueue(Dequeue(Append(queue, r), pendingPromises,
                           [rpc EXCEPT ![r] = "waiting"], invoked))
       /\ UNCHANGED <<providerLatencyAdd, paced, rkind>>
       /\ UNCHANGED <<cvars, layers, res, heard, ret, added, seen, docs, written, upserts, keyed>>

\* what a provider call returns: a text, or the null of getChatCompletion.js line 163,
\* for a chat request and a vector for an embedding request
ProviderValues(kind) == IF kind = "chat" THEN {"x", Null} ELSE {"y"}

\* lines 192-203 and 251-258: the provider call has returned a value
CachedReturn(r, value) ==
    /\ rpc[r] = "calling"
    /\ value \in ProviderValues(rkind[r])
    /\ rpc' = [rpc EXCEPT ![r] = IF providerLatencyAdd > 0 THEN "pacing" ELSE "resolved"]
    /\ res' = [res EXCEPT ![r] = value]
    /\ UNCHANGED <<providerLatencyAdd, paced, rkind, queue, pendingPromises, invoked, submitNo>>
    /\ UNCHANGED <<cvars, layers, lastGet, got, heard, ret, added, seen, fault, docs, written, upserts, keyed>>

\* a request that returns the provider's value without writing it to the cache
CachedAdd_unwritten(r, down) ==
    /\ rpc[r] = "caching"
    /\ rpc' = [rpc EXCEPT ![r] = "returned"]
    /\ ret' = [ret EXCEPT ![r] = [value |-> res[r], cache |-> FALSE]]
    /\ UNCHANGED <<providerLatencyAdd, paced, rkind, queue, pendingPromises, invoked, submitNo>>
    /\ UNCHANGED <<cvars, layers, lastGet, got, res, heard, added, seen, fault, docs, written, upserts, keyed>>

\* lines 205-217 and 260-271: the provider's value is written to the cache, and then
\* returned unless the write raised
CachedAdd(r, down) ==
    LET a == LayerAdd(layers, res[r], down)
    IN /\ rpc[r] = "caching"
       /\ layers' = a.layers
       /\ lastGet' = NoRead
       /\ added' = [added EXCEPT ![r] = res[r]]
       /\ fault' = [fault EXCEPT ![r] = IF down # {} THEN @ \cup {"add"} ELSE @]
       /\ rpc' = [rpc EXCEPT ![r] = IF a.ok THEN "returned" ELSE "failed"]
       /\ ret' = [ret EXCEPT ![r] = IF a.ok THEN [value |-> res[r], cache |-> FALSE]
                                    ELSE NoReturn]
       /\ UNCHANGED <<providerLatencyAdd, paced, rkind, queue, pendingPromises, invoked, submitNo>>
       /\ UNCHANGED <<cvars, got, res, heard, seen, docs, written, upserts, keyed>>

\* the fastest backend drops its entry
Evict ==
    /\ layers[1] # Null
    /\ layers' = [layers EXCEPT ![1] = Null]
    /\ lastGet' = NoRead
    /\ UNCHANGED <<cvars, avars, got, res, heard, ret, added, seen, fault, docs, written, upserts, keyed>>

\* the cache of the requests at the start
CacheStart ==
    /\ layers = [i \in Layers |-> Null]
    /\ lastGet = NoRead
    /\ got = [r \in Reqs |-> Nothing]
    /\ res = [r \in Reqs |-> Nothing]
    /\ heard = [r \in Reqs |-> <<>>]
    /\ ret = [r \in Reqs |-> NoReturn]
    /\ added = [r \in Reqs |-> Nothing]
    /\ seen = [r \in Reqs |-> {}]
    /\ fault = [r \in Reqs |-> {}]
    /\ docs = {}
    /\ written = {}
    /\ upserts = <<>>
    /\ keyed = NoKeyedCall

\* the cache while it is not looked into: no backend and nothing on record
IdleCache ==
    /\ layers = <<>>
    /\ lastGet = NoRead
    /\ got = <<>> /\ res = <<>> /\ heard = <<>> /\ ret = <<>> /\ added = <<>>
    /\ seen = <<>> /\ fault = <<>>
    /\ docs = {}
    /\ written = {}
    /\ upserts = <<>>
    /\ keyed = NoKeyedCall

\* -------------------------------------------------------- specification
\* a chunk is any non-empty run of tokens
Chunks(maxLen) == UNION {[1..n -> Alphabet] : n \in 1..maxLen}

InitCompletion ==
    /\ cpc = "init"
    /\ stream \in BOOLEAN
    /\ useRawApi \in (IF stream THEN {FALSE} ELSE BOOLEAN)   \* rawApi is not read when streaming
    /\ tries = 0
    /\ respJson = NullJson
    /\ respErr = "none"
    /\ fetchCount = 0
    /\ attempts = <<>>
    /\ bytes = <<>>
    /\ rawBuffer = <<>>
    /\ parsedRes = <<>>
    /\ eof = FALSE
    /\ listenerCalls = <<>>
    /\ processed = <<>>
    /\ result = NoResult
    /\ thrown = NoError
    /\ warnLog = <<>>
    /\ faults = {}
    /\ IdleBridge
    /\ IdleCache

NextCompletion ==
    \/ \E contentNull \in BOOLEAN, maxTokens \in {50, 51} : Prepare(contentNull, maxTokens)
    \/ \E outcome \in {"fetch_throws", "json_throws", "body"}, b \in Bodies,
          failAt \in 0..1 : Attempt(outcome, b, failAt)
    \/ \E ok \in BOOLEAN : StreamFetch(ok)
    \/ \E value \in Chunks(MaxStreamLen - Len(bytes)) : ReadChunk(value)
    \/ ReadEnd
    \/ ReadFail

SpecCompletion == InitCompletion /\ [][NextCompletion]_vars

\* Streaming calls whose response is one of a few long streams, cut into chunks at any
\* places and ended at any place: blocks set apart by four or five newlines.
GapStreams ==
    {<<JsonHi, NL, NL, NL, NL, JsonBang, NL, NL, NL, NL, JsonHi, NL, NL>>,
     <<JsonBang, NL, NL, NL, NL, NL, Sentinel, NL, NL, NL, NL, NL, JsonHi, NL, NL>>}

InitStreams == InitCompletion /\ stream

NextStreams ==
    \/ \E contentNull \in BOOLEAN, maxTokens \in {50, 51} : Prepare(contentNull, maxTokens)
    \/ \E ok \in BOOLEAN : StreamFetch(ok)
    \/ \E s \in GapStreams : \E n \in 1..Len(s) :
          /\ IsPrefix(bytes, s)
          /\ Len(bytes) + n <= Len(s)
          /\ ReadChunk(SubSeq(s, Len(bytes) + 1, Len(bytes) + n))
    \/ ReadEnd
    \/ ReadFail

SpecStreams == InitStreams /\ [][NextStreams]_vars

\* the state of a getChatCompletion call that is not looked into
IdleCompletion ==
    /\ cpc = "init" /\ stream = FALSE /\ useRawApi = FALSE /\ tries = 0
    /\ respJson = NullJson /\ respErr = "none" /\ fetchCount = 0 /\ attempts = <<>>
    /\ bytes = <<>> /\ rawBuffer = <<>> /\ parsedRes = <<>> /\ eof = FALSE
    /\ listenerCalls = <<>> /\ processed = <<>> /\ result = NoResult /\ thrown = NoError
    /\ warnLog = <<>> /\ faults = {}

Init == InitBridge /\ IdleCompletion /\ IdleCache

Next ==
    \/ \E r \in Reqs, kind \in {"chat", "embedding"} : Call(r, kind)
    \/ \E r \in Reqs : CacheHit(r)
    \/ \E r \in Reqs : CacheMiss(r)
    \/ \E r \in Reqs : ProviderRetry(r)
    \/ \E r \in Reqs : ProviderReturn(r)
    \/ \E r \in Reqs : ProviderFail(r)
    \/ \E r \in Reqs : PacingDone(r)
    \/ \E r \in Reqs : Release(r)
    \/ \E r \in Reqs : CacheAdd(r)

Spec == Init /\ [][Next]_vars

\* Every provider call that was sent returns or throws, every sleep ends, and the
\* handlers of a settled promise run.
Fairness ==
    \A r \in Reqs :
        /\ WF_vars(ProviderReturn(r) \/ ProviderFail(r))
        /\ WF_vars(PacingDone(r))
        /\ WF_vars(Release(r))

SpecFair == Init /\ [][Next]_vars /\ Fairness

\* The shared remote backend alone: values are written and looked up under keys that
\* differ in kind, options, group and tempKey.
InitRemote == IdleBridge /\ IdleCompletion /\ IdleCache

NextRemote ==
    \/ \E q \in CacheRequests, value \in Values : RemoteAdd(q, value)
    \/ \E q \in CacheRequests, value \in Values \cup {Null} : RemoteGet(q, value)

SpecRemote == InitRemote /\ [][NextRemote]_vars

\* Clients of one shared database that write completions under the same keys at the
\* same time, and look them up.
InitWriters ==
    /\ IdleBridge /\ IdleCompletion
    /\ layers = <<>>
    /\ lastGet = NoRead
    /\ got = <<>> /\ res = <<>> /\ heard = <<>> /\ ret = <<>> /\ added = <<>>
    /\ seen = <<>> /\ fault = <<>>
    /\ docs = {}
    /\ written = {}
    /\ upserts = [w \in Writers |-> NoUpsert]
    /\ keyed = NoKeyedCall

NextWriters ==
    \/ \E w \in Writers, q \in WriterKeys, value \in Values : UpsertFound(w, q, value)
    \/ \E w \in Writers, q \in WriterKeys, value \in Values : UpsertMissed(w, q, value)
    \/ \E w \in Writers : UpsertInsert(w)
    \/ \E q \in WriterKeys, value \in Values \cup {Null} : WriterGet(q, value)

SpecWriters == InitWriters /\ [][NextWriters]_vars

\* One call of getChatCompletion up to the cache lookup: the options, the configuration
\* and the tempKey argument are any of the bounded sets.
InitTempKey ==
    /\ IdleBridge /\ IdleCompletion
    /\ layers = <<>>
    /\ lastGet = NoRead
    /\ got = <<>> /\ res = <<>> /\ heard = <<>> /\ ret = <<>> /\ added = <<>>
    /\ seen = <<>> /\ fault = <<>>
    /\ docs = {}
    /\ written = {}
    /\ upserts = <<>>
    /\ \E temperature \in Temperatures, multiplier \in KeyMultipliers, tempKey \in GivenKeys :
          keyed = [temperature |-> temperature, temperatureKeyMultiplier |-> multiplier,
                   given |-> tempKey, random |-> 0, tempKey |-> tempKey, step |-> "called"]

NextTempKey == \E random \in RandomDraws : DeriveTempKey(random)

SpecTempKey == InitTempKey /\ [][NextTempKey]_vars

\* Requests for one key going through the layer cache, the queue and the provider, with
\* backends that may raise in any operation.
CachedReqs == 1..NumCachedReqs

InitCached == IdleBridge /\ IdleCompletion /\ CacheStart

NextCached ==
    \/ \E r \in CachedReqs, kind \in {"chat", "embedding"} : CachedCall(r, kind)
    \/ \E r \in CachedReqs, down \in SUBSET Layers, listenerOk \in BOOLEAN :
          CachedHit(r, down, listenerOk)
    \/ \E r \in CachedReqs, down \in SUBSET Layers : CachedMiss(r, down)
    \/ \E r \in CachedReqs, value \in Values \cup {Null} : CachedReturn(r, value)
    \/ \E r \in CachedReqs : ProviderFail(r)
    \/ \E r \in CachedReqs : Release(r)
    \/ \E r \in CachedReqs, down \in SUBSET Layers : CachedAdd(r, down)
    \/ Evict

SpecCached == InitCached /\ [][NextCached]_vars

\* ====================================================================
\* Properties of the dispatch queue (Spec)
\* ====================================================================
\* the requests whose provider call is in flight
InFlight == {r \in Reqs : rpc[r] = "calling"}

\* the requests that hold a slot of the queue: admitted and not yet released
Holding == {r \in Reqs : rpc[r] \in {"calling", "pacing", "resolved", "rejected"}}

InQueue == {queue[i] : i \in 1..Len(queue)}

\* C1: for any interleaving of getChatCompletion and getEmbedding requests that miss
\* the cache, the number of provider calls in flight at the same time never exceeds
\* providerRateLimit; a request submitted while the limit is reached waits in the
\* queue, and a waiting request has not invoked the provider.
C1_InFlightWithinLimit ==
    /\ Cardinality(InFlight) <= providerRateLimit
    /\ \A r \in Reqs : rpc[r] = "waiting" => invoked[r] = 0 /\ r \in InQueue
    /\ \A r \in Reqs : invoked[r] > 0 => submitNo[r] > 0 /\ r \notin InQueue

\* the limit is reached by calls of one kind while a request of the other kind waits
C1_Witness ==
    /\ Cardinality(InFlight) = providerRateLimit
    /\ \E r \in InFlight, s \in Reqs :
          /\ rkind[r] # rkind[s]
          /\ rpc[s] = "waiting"
          /\ invoked[s] = 0

\* C2: a waiting task is admitted only after an earlier admitted task has released
\* its slot, so the admitted tasks that still hold a slot are never more than the
\* limit; waiting tasks are admitted in the order they were submitted: the queue is
\* in submission order, and while a task waits every task submitted after it waits.
C2_AdmittedInSubmitOrder ==
    /\ pendingPromises = Cardinality(Holding)
    /\ Cardinality(Holding) <= providerRateLimit
    /\ \A i, j \in 1..Len(queue) : i < j => submitNo[queue[i]] < submitNo[queue[j]]
    /\ \A r, s \in Reqs :
          (submitNo[r] > 0 /\ submitNo[r] < submitNo[s] /\ rpc[r] = "waiting")
              => rpc[s] = "waiting"

\* every slot was taken when r and s were submitted; a slot has been released, r, the
\* earlier of the two, has been admitted and s still waits
C2_Witness ==
    \E r, s \in Reqs :
       /\ submitNo[r] > providerRateLimit
       /\ submitNo[r] < submitNo[s]
       /\ rpc[r] = "calling"
       /\ rpc[s] = "waiting"
       /\ \E t \in Reqs : /\ submitNo[t] > 0 /\ submitNo[t] < submitNo[r]
                          /\ rpc[t] \in {"caching", "failed"}

\* the requests whose task has got its result and sleeps
Pacing == {r \in Reqs : rpc[r] = "pacing"}

\* C19: with providerLatencyAdd > 0 a task whose provider call has succeeded keeps its
\* slot until the delay is over: it returns only after the sleep, a sleeping task is
\* counted among the pending ones, the calls in flight and the sleeping tasks together
\* never exceed the limit, and while every slot is held, be it by a sleeping task, the
\* queued requests stay in the queue without a provider call.
C19_PacingKeepsSlot ==
    /\ \A r \in Reqs : rpc[r] = "pacing" => providerLatencyAdd > 0 /\ ~paced[r]
    /\ providerLatencyAdd > 0
           => \A r \in Reqs : (rpc[r] \in {"resolved", "caching"}
                                   \/ (rpc[r] = "returned" /\ submitNo[r] > 0)) => paced[r]
    /\ pendingPromises >= Cardinality(InFlight \cup Pacing)
    /\ Cardinality(InFlight \cup Pacing) <= providerRateLimit
    /\ (Pacing # {} /\ queue # <<>>)
           => /\ pendingPromises = providerRateLimit
              /\ \A i \in 1..Len(queue) : rpc[queue[i]] = "waiting" /\ invoked[queue[i]] = 0

\* a task sleeps in its slot while another request waits in the queue
C19_Witness ==
    \E r, s \in Reqs :
       /\ rpc[r] = "pacing"
       /\ rpc[s] = "waiting"
       /\ queue = <<s>>
       /\ pendingPromises = providerRateLimit

\* C24: a slot is given back when its task has ended, by a return or by an exception:
\* the slots in use are those of the tasks that have not been settled, tasks wait only
\* while every slot is in use, and every waiting task is admitted in the end.
C24_SlotsReleasedWaitersAdmitted ==
    /\ [](pendingPromises = Cardinality(Holding))
    /\ [](queue # <<>> => pendingPromises = providerRateLimit)
    /\ \A r \in Reqs : (rpc[r] = "waiting") ~> (rpc[r] = "calling")

\* the slot of a failed task is in use again while another task waits
C24_Witness ==
    \E r, s, t \in Reqs :
        /\ rpc[r] = "failed" /\ submitNo[r] = 1
        /\ rpc[s] = "calling" /\ submitNo[s] = 2
        /\ rpc[t] = "waiting" /\ submitNo[t] = 3
        /\ pendingPromises = providerRateLimit

\* ====================================================================
\* Properties of one getChatCompletion call (SpecCompletion)
\* ====================================================================
RECURSIVE Flatten(_)
Flatten(ss) == IF ss = <<>> THEN <<>> ELSE Head(ss) \o Flatten(Tail(ss))

\* The framing of a whole byte sequence, whatever its chunks were: blank lines in
\* front of a block are dropped, a block runs up to the next blank line.
RECURSIVE FramedBlocks(_)
FramedBlocks(s) ==
    LET t == StripLeadingNL(s)
        pos == IndexOfDoubleNL(t)
    IN IF pos < 0 THEN <<>>
       ELSE <<Trim(SliceTo(t, pos))>> \o FramedBlocks(SliceFrom(t, pos + 2))

\* what follows the last terminated block of a byte sequence
RECURSIVE UnterminatedTail(_)
UnterminatedTail(s) ==
    LET t == StripLeadingNL(s)
        pos == IndexOfDoubleNL(t)
    IN IF pos < 0 THEN t ELSE UnterminatedTail(SliceFrom(t, pos + 2))

IsSentinelBlock(e) == StartsWith(e, Sentinel)
IsErrorBlock(e) == StartsWith(e, ErrorPrefix)
IsJsonBlock(e) == ~IsErrorBlock(e) /\ ~IsSentinelBlock(e) /\ JsonParses(e)

\* the deltas of the JSON blocks of a list of blocks, in the order of the list
RECURSIVE JsonDeltas(_)
JsonDeltas(blocks) ==
    IF blocks = <<>> THEN <<>>
    ELSE (IF IsJsonBlock(Head(blocks)) THEN <<StrToken(Head(blocks)[1])>> ELSE <<>>)
             \o JsonDeltas(Tail(blocks))

WellFormed(a) == a.outcome = "body" /\ a.body.shape \in {"chat", "text"}
TransportFailure(a) == a.outcome \in {"fetch_throws", "json_throws"}
ErrorBody(a) == a.outcome = "body" /\ a.body.shape = "error"
ResultOf(b) == IF useRawApi THEN RawResult(b) ELSE TextResult(b.content)

\* C3: in a non-streaming call an attempt whose response body encodes an error is the
\* last one: the provider is not invoked again and the call does not return a value.
C3_ErrorBodyAborts ==
    ~stream => \A i \in DOMAIN attempts :
                   ErrorBody(attempts[i]) => Len(attempts) = i /\ cpc # "returned"

C5_NoValueWithoutResponse ==
    (~stream /\ cpc = "returned")
        => result # NullResult /\ \E i \in DOMAIN attempts : WellFormed(attempts[i])

\* a block was handled that the decoder rejects, or data was left at the end
DecodeFailed ==
    \/ \E i \in DOMAIN processed : ~IsSentinelBlock(processed[i]) /\ ~IsJsonBlock(processed[i])
    \/ eof /\ Trim(rawBuffer) # <<>>

\* C6: a streaming call sends one request: at most one ever, exactly one once it is
\* past its request; after any failure (transport, decode, listener) the call has ended
\* with an error and no value.
C6_StreamInvokesOnce ==
    stream =>
        /\ fetchCount <= 1
        /\ cpc \in {"reading", "returned"} => fetchCount = 1
        /\ (faults # {} \/ DecodeFailed)
               => cpc = "threw" /\ thrown # NoError /\ result = NoResult /\ fetchCount = 1

C6_Witness ==
    /\ stream /\ cpc = "threw" /\ fetchCount = 1
    /\ "listener" \in faults
    /\ listenerCalls = <<<<"H", "i">>, <<"!">>>>

\* C7: the arguments of the listener calls are, in order, deltas of the JSON blocks in
\* the order the byte stream frames them; when the call returns, every such delta was
\* delivered and the returned text is the concatenation of the delivered deltas.
C7_DeltasInFramedOrder ==
    stream =>
        /\ IsPrefix(listenerCalls, JsonDeltas(FramedBlocks(bytes)))
        /\ cpc = "returned"
               => /\ listenerCalls = JsonDeltas(FramedBlocks(bytes))
                  /\ result = TextResult(Flatten(listenerCalls))

C7_Witness ==
    /\ stream /\ cpc = "returned"
    /\ listenerCalls = <<<<"!">>, <<"H", "i">>>>
    /\ result = TextResult(<<"!", "H", "i">>)

\* C8: a sentinel block produces no delta and no listener call and does not end the
\* decode: the listener calls are the deltas of the JSON blocks handled, blocks framed
\* after a sentinel are handled like any other, and the call returns only after the
\* byte source has reported its end.  "data: {Hi}\n\ndata: [DONE]\n\n" yields the one
\* delta "Hi", the text "Hi" and a normal return.
C8_SentinelIgnored ==
    stream =>
        /\ listenerCalls = JsonDeltas(processed)
        /\ IsPrefix(processed, FramedBlocks(bytes))
        /\ cpc = "returned" => eof /\ processed = FramedBlocks(bytes)
        /\ (eof /\ bytes = <<JsonHi, NL, NL, Sentinel, NL, NL>>)
               => /\ cpc = "returned"
                  /\ listenerCalls = <<<<"H", "i">>>>
                  /\ result = TextResult(<<"H", "i">>)

C8_Witness ==
    /\ stream /\ cpc = "returned"
    /\ processed = <<<<Sentinel>>, <<JsonHi>>>>
    /\ listenerCalls = <<<<"H", "i">>>>

LastError == warnLog[Len(warnLog)].error

\* C9 as stated: once the byte source has reported its end of a stream whose blocks
\* are all JSON or sentinel blocks, and the listener has not raised, the call has failed
\* if non-empty unterminated data is left and has returned the whole text otherwise.
C9_DoneUnlessUnterminated ==
    (/\ stream /\ eof /\ faults = {}
     /\ \A i \in DOMAIN FramedBlocks(bytes) :
            IsSentinelBlock(FramedBlocks(bytes)[i]) \/ IsJsonBlock(FramedBlocks(bytes)[i]))
        => IF Trim(UnterminatedTail(bytes)) # <<>>
           THEN cpc = "threw" /\ result = NoResult
           ELSE cpc = "returned"
                /\ result = TextResult(Flatten(JsonDeltas(FramedBlocks(bytes))))

\* three JSON blocks set apart by four newlines arrive in one chunk: the third block is
\* terminated and still in the buffer when the test of the leftover is made
C9_GapWitness ==
    /\ stream /\ eof /\ cpc = "threw" /\ faults = {}
    /\ bytes = <<JsonHi, NL, NL, NL, NL, JsonBang, NL, NL, NL, NL, JsonHi, NL, NL>>
    /\ Trim(UnterminatedTail(bytes)) = <<>>
    /\ rawBuffer = <<NL, NL, JsonHi, NL, NL>>
    /\ listenerCalls = <<<<"H", "i">>, <<"!">>>>
    /\ LastError = EndOfStreamError

\* the part of an error block's text that stands on its first line
RECURSIVE FirstLine(_)
FirstLine(s) ==
    IF s = <<>> \/ Head(s) = NL THEN <<>> ELSE <<Head(s)>> \o FirstLine(Tail(s))

IsUnknownBlock(e) == ~IsErrorBlock(e) /\ ~IsSentinelBlock(e) /\ ~JsonPrefixed(e)

\* C11: a terminated block that is neither the sentinel nor JSON-prefixed is a protocol
\* violation: it is the last block handled, the call has failed with no text returned,
\* the listener has received the deltas of the JSON blocks before it and nothing after
\* it, and the block is written to the warn log.
C11_UnknownBlockEndsDecode ==
    stream => \A i \in DOMAIN processed :
        (~IsSentinelBlock(processed[i]) /\ ~JsonPrefixed(processed[i])) =>
            /\ i = Len(processed)
            /\ cpc = "threw" /\ thrown = EventProcessingError /\ result = NoResult
            /\ listenerCalls = JsonDeltas(SubSeq(processed, 1, i - 1))
            /\ IsUnknownBlock(processed[i]) =>
                   \E k \in DOMAIN warnLog :
                       /\ warnLog[k].msg = "Unexpected data event format"
                       /\ warnLog[k].detail = processed[i]

\* "oops\n\ndata: {Hi}\n\n" in one chunk: the JSON block behind the unknown block is
\* left in the buffer and its delta is not delivered
C11_Witness ==
    /\ stream /\ cpc = "threw"
    /\ bytes = <<Text, NL, NL, JsonHi, NL, NL>>
    /\ processed = <<<<Text>>>>
    /\ rawBuffer = <<JsonHi, NL, NL>>
    /\ listenerCalls = <<>>

\* an attempt that ended in an exception: the request or the parse of its body failed,
\* the body encodes an error, or the listener raised
Raised(a) == TransportFailure(a) \/ ErrorBody(a) \/ a.listener = "raised"

\* C20: a non-streaming call sends at most 2 requests, whatever the attempts end in;
\* an exception raised during attempt 1 is swallowed: nothing is thrown or returned and
\* the call stands before its second attempt.
C20_AtMostTwoAttempts ==
    ~stream =>
        /\ fetchCount <= 2
        /\ fetchCount = Len(attempts)
        /\ (Len(attempts) = 1 /\ Raised(attempts[1]))
               => cpc = "attempt" /\ tries = 1 /\ thrown = NoError /\ result = NoResult
        /\ (Len(attempts) = 2 /\ Raised(attempts[2])) => cpc = "threw"

\* both attempts were made and both raised
C20_Witness ==
    /\ ~stream /\ fetchCount = 2 /\ cpc = "threw"
    /\ attempts[1].outcome = "json_throws"
    /\ attempts[2].outcome = "fetch_throws"
    /\ thrown = MissingValidResponse

Exhausted == ~stream /\ cpc = "threw" /\ thrown = MissingValidResponse

\* the report written when the attempts are exhausted
FinalReport == warnLog[Len(warnLog)]

\* C21: when a non-streaming call fails after its attempts are exhausted, the last
\* transport error and the last response received are both reported whenever both exist.
C21_BothDiagnosticsSurfaced ==
    (Exhausted /\ respErr \in {"fetch_throws", "json_throws"} /\ respJson # NullJson) =>
        /\ FinalReport.msg = "Unable to handle prompt"
        /\ FinalReport.error = respErr
        /\ FinalReport.response = respJson

\* a response came on attempt 1, a transport error on attempt 2, and the report has the
\* error alone
C21_ResponseDroppedWitness ==
    /\ Exhausted
    /\ Len(attempts) = 2
    /\ attempts[1].outcome = "body" /\ attempts[1].body = respJson /\ respJson # NullJson
    /\ attempts[2].outcome = "fetch_throws"
    /\ FinalReport = [msg |-> "Unable to handle prompt", error |-> "fetch_throws",
                      response |-> NullJson]

\* the chunking of a byte sequence that hands over one token at a time
Tokenwise(s) == [i \in 1..Len(s) |-> <<s[i]>>]

\* the deltas delivered and the terminal state of a decode
Outcome(d) == [deltas |-> d.listenerCalls, state |-> IF d.err = NoError THEN "DONE" ELSE "ERROR"]

\* a streaming call whose request was answered has ended, and neither the byte source
\* nor the listener has raised
DecodeEnded == stream /\ fetchCount = 1 /\ cpc \in {"returned", "threw"} /\ faults = {}

\* C22: the outcome of a decode depends on the bytes only, not on their chunks: the
\* deltas delivered and the terminal state are those of the same bytes arriving one
\* token at a time, and when the test of the leftover is made every block the bytes
\* frame has been processed.
C22_ChunkingIndependent ==
    DecodeEnded =>
        /\ [deltas |-> listenerCalls, state |-> IF cpc = "returned" THEN "DONE" ELSE "ERROR"]
               = Outcome(DecodeStream(Tokenwise(bytes)))
        /\ (cpc = "returned" \/ LastError = EndOfStreamError) => processed = FramedBlocks(bytes)

\* the same bytes end in ERROR after two deltas when they arrive in one chunk and in
\* DONE after three deltas when they arrive token by token
C22_OneChunkWitness ==
    /\ DecodeEnded /\ eof /\ cpc = "threw"
    /\ bytes = <<JsonHi, NL, NL, NL, NL, JsonBang, NL, NL, NL, NL, JsonHi, NL, NL>>
    /\ listenerCalls = <<<<"H", "i">>, <<"!">>>>
    /\ processed = <<<<JsonHi>>, <<JsonBang>>>>
    /\ Outcome(DecodeStream(Tokenwise(bytes)))
           = [deltas |-> <<<<"H", "i">>, <<"!">>, <<"H", "i">>>>, state |-> "DONE"]
    /\ Outcome(DecodeStream(<<bytes>>)) = [deltas |-> listenerCalls, state |-> "ERROR"]

\* ====================================================================
\* Properties of the cached request path (SpecCached)
\* ====================================================================
Hit(r) == got[r] \notin {Nothing, Null}

\* C12: a request asks the cache first.  On a hit no task is submitted and the provider
\* is not invoked, a chat request's listener receives the cached text exactly once, and
\* the request that returns returns the cached value flagged as served from the cache.
\* The provider is invoked only on a miss, and a request that returns the provider's
\* value has handed that value to the cache before.
C12_CacheFirst ==
    \A r \in Reqs :
        /\ Hit(r) =>
              /\ submitNo[r] = 0 /\ invoked[r] = 0
              /\ res[r] = Nothing /\ added[r] = Nothing
              /\ \A i \in 1..Len(queue) : queue[i] # r
              /\ rpc[r] \in {"returned", "failed"}
              /\ rkind[r] = "chat" => heard[r] = <<got[r]>>
              /\ rpc[r] = "returned" => ret[r] = [value |-> got[r], cache |-> TRUE]
        /\ (submitNo[r] > 0 \/ invoked[r] > 0) => got[r] = Null /\ heard[r] = <<>>
        /\ (rpc[r] = "returned" /\ submitNo[r] > 0) =>
              /\ added[r] = res[r]
              /\ ret[r] = [value |-> res[r], cache |-> FALSE]

C12_Witness ==
    \E r, s \in Reqs :
        /\ rkind[r] = "chat"
        /\ invoked[r] = 1 /\ ret[r] = [value |-> "x", cache |-> FALSE] /\ added[r] = "x"
        /\ invoked[s] = 0 /\ ret[s] = [value |-> "x", cache |-> TRUE] /\ heard[s] = <<"x">>

\* a request that went to the provider and returned its value
ReturnedFromProvider(r) == rpc[r] = "returned" /\ submitNo[r] > 0

NoBackendRaised == \A x \in Reqs : fault[x] = {}

\* C13: requests for one key with partition key 0 address the same entry: once a request
\* has gone to the provider and returned, every identical request made later is served
\* from the cache without a provider call (while every backend answers).
C13_LaterRequestsServedFromCache ==
    NoBackendRaised =>
        \A r, s \in Reqs :
            (r \in seen[s] /\ ReturnedFromProvider(r)) =>
                /\ invoked[s] = 0 /\ submitNo[s] = 0
                /\ got[s] # Null

\* the later request goes to the provider after the earlier one returned a null
C13_NullWitness ==
    \E r, s \in Reqs :
        /\ NoBackendRaised
        /\ r \in seen[s] /\ ReturnedFromProvider(r)
        /\ ret[r] = [value |-> Null, cache |-> FALSE] /\ added[r] = Null
        /\ got[s] = Null /\ invoked[s] = 1

DispatchFailed(r) == invoked[r] > 0 /\ rpc[r] # "calling" /\ res[r] = Nothing

\* C23: a request whose dispatch fails writes nothing to the cache and the failure
\* reaches its caller: its lookup found nothing and promoted nothing, nothing is handed
\* to the cache, nothing is returned, and once the slot is given back the request has
\* failed.
C23_FailedDispatchWritesNothing ==
    \A r \in Reqs :
        DispatchFailed(r) =>
            /\ rpc[r] \in {"rejected", "failed"}
            /\ got[r] = Null
            /\ added[r] = Nothing
            /\ ret[r] = NoReturn
            /\ \A j \in Layers : layers[j] \in Values \cup {Null}

\* a request has failed while the cache holds what another request wrote
C23_Witness ==
    \E r, s \in Reqs :
        /\ DispatchFailed(r) /\ rpc[r] = "failed"
        /\ ret[s] = [value |-> "x", cache |-> FALSE] /\ added[s] = "x"
        /\ \A j \in Layers : layers[j] = "x"

\* ====================================================================
\* Properties of the shared remote backend (SpecRemote)
\* ====================================================================
Looked(kind) == lastGet # NoRead /\ lastGet.request.kind = kind

\* the keys that differ from q in the group at most
AnyGroup(q) == {k \in CacheRequests : [k EXCEPT !.cacheGrp = q.cacheGrp] = q}

\* the key that differs from q in the partition key only
OtherTempKey(q) == [q EXCEPT !.tempKey = 1 - q.tempKey]

\* C14: completion requests that differ only in partition key never collide: a lookup
\* under partition key B returns a value written under B (null if there is none),
\* whatever was written under partition key A.
C14_PartitionKeysApart ==
    Looked("completion") =>
        LET underB == {Written(k) : k \in AnyGroup(lastGet.request)} \ {Nothing}
        IN IF underB = {} THEN lastGet.value = Null ELSE lastGet.value \in underB

C14_Witness ==
    /\ Looked("completion")
    /\ Written(OtherTempKey(lastGet.request)) = "x"
    /\ \A k \in AnyGroup(OtherTempKey(lastGet.request)) : Written(k) \in {"x", Nothing}
    /\ Written(lastGet.request) = "y"
    /\ lastGet.value = "y"

\* C15: an embedding lookup never returns a record written for the same prompt under
\* other options: what it returns was written under its own options.
C15_EmbeddingByPromptAndOptions ==
    (Looked("embedding") /\ lastGet.value # Null) =>
        lastGet.value \in {Written(k) : k \in AnyGroup(lastGet.request)}

\* the lookup under options o2 returns what was written under o1
C15_OtherOptionsWitness ==
    /\ Looked("embedding")
    /\ lastGet.value # Null
    /\ \A k \in AnyGroup(lastGet.request) : Written(k) = Nothing
    /\ \E k \in CacheRequests :
          /\ k.kind = "embedding" /\ k.prompt = lastGet.request.prompt
          /\ k.opt # lastGet.request.opt
          /\ Written(k) = lastGet.value

\* C16: a value written under group G1 is never returned for an identical request made
\* under another group G2.
C16_GroupsIsolated ==
    (lastGet # NoRead /\ lastGet.value # Null /\ Written(lastGet.request) = Nothing) =>
        \A k \in AnyGroup(lastGet.request) : Written(k) # lastGet.value

\* the completion lookup under g2 returns what was written under g1
C16_OtherGroupWitness ==
    /\ Looked("completion")
    /\ lastGet.request.cacheGrp = "g2"
    /\ Written(lastGet.request) = Nothing
    /\ Written([lastGet.request EXCEPT !.cacheGrp = "g1"]) = lastGet.value
    /\ lastGet.value \in Values

\* ====================================================================
\* Properties of the shared database under concurrent writers (SpecWriters)

\* no updateOne is under way
Settled == \A w \in Writers : upserts[w] = NoUpsert

\* C25: a completion write is an upsert keyed by (hash, tempKey, prompt, options) within
\* the collection of its (kind, model): however the writes of concurrent writers
\* interleave, a key that was written has exactly one record, a key that was not has
\* none, and a lookup that follows the writes returns the value of the last write.
C25_UpsertLeavesOneRecord ==
    /\ \A q \in WriterKeys :
          Cardinality(Records(docs, CacheObj(q))) = (IF Written(q) = Nothing THEN 0 ELSE 1)
    /\ (lastGet # NoRead /\ Settled) =>
          lastGet.value = (IF Written(lastGet.request) = Nothing THEN Null
                           ELSE Written(lastGet.request))

\* two writers of one new key both matched nothing and both inserted: the key has two
\* records, and the lookup after the last write returned the value of the earlier one
C25_TwoRecordsWitness ==
    \E q \in WriterKeys :
        /\ Settled
        /\ Cardinality(Records(docs, CacheObj(q))) = 2
        /\ {d.completion : d \in Records(docs, CacheObj(q))} = Values
        /\ lastGet # NoRead /\ lastGet.request = q
        /\ Written(q) = "y"
        /\ lastGet.value = "x"

\* ====================================================================
\* Properties of the partition key (SpecTempKey)

====
